---- MODULE Spec2Model ----
(***************************************************************************)
(* Guardian: the daemon's event pipeline (guardian-daemon/src/main.rs),    *)
(* its rule engine (rules.rs), the signature scanner's contract            *)
(* (scanner.rs) and the shared event type (guardian-common/src/lib.rs).    *)
(*                                                                         *)
(* Strings whose content the code inspects (paths) are sequences of        *)
(* one-character strings; identifiers the code only copies are atoms.      *)
(* Option<T> is a sequence of length 0 (None) or 1 (Some).                 *)
(***************************************************************************)
EXTENDS Integers, Sequences, FiniteSets, TLC

----------------------------------------------------------------------------
(* Bounds of the model *)

\* slots of the bounded queue (the code's 1000, scaled down)
Capacity == 2
\* native filesystem notifications delivered in one run
MaxFsEvents == 2
\* iterations of the sampler loop in one run (while the receiver lives)
MaxSamples == 2
\* rules appended with add_rule after the built-ins
MaxAdded == 2
\* lines written to the stdin of the bridge, or by the daemon to the
\* sentinel, in a run
MaxLines == 3

----------------------------------------------------------------------------
(* Option and string helpers *)

None == <<>>
Some(x) == <<x>>
IsSome(o) == Len(o) = 1

\* str::contains
Contains(s, sub) ==
    \E i \in 1..(Len(s) - Len(sub) + 1) : SubSeq(s, i, i + Len(sub) - 1) = sub

\* str::ends_with
EndsWith(s, suf) ==
    /\ Len(s) >= Len(suf)
    /\ SubSeq(s, Len(s) - Len(suf) + 1, Len(s)) = suf

S_etc == <<"/", "e", "t", "c">>
S_passwd == <<"p", "a", "s", "s", "w", "d">>
S_shadow == <<"s", "h", "a", "d", "o", "w">>
S_sudoers == <<"s", "u", "d", "o", "e", "r", "s">>
S_conf == <<".", "c", "o", "n", "f">>
S_cfg == <<".", "c", "f", "g">>
S_slash == <<"/">>
S_w == <<"/", "w">>
S_port4444 == <<":", "4", "4", "4", "4">>
S_port31337 == <<":", "3", "1", "3", "3", "7">>
S_addr == <<"1", "0", ".", "0", ".", "0", ".", "5">>

----------------------------------------------------------------------------
(* guardian-common: Severity, EventType, LogEvent *)

\* enum Severity, in declaration order
Severity == <<"Info", "Low", "Medium", "High", "Critical">>

SeveritySet == {Severity[i] : i \in 1..Len(Severity)}

\* position of a variant in the declaration
SeverityIndex(s) == CHOOSE i \in 1..Len(Severity) : Severity[i] = s

\* derive(PartialOrd, Ord): variants compare by declaration order
SeverityGe(a, b) == SeverityIndex(a) >= SeverityIndex(b)

FileIntegrity(path, operation, hash) ==
    [type |-> "FileIntegrity", path |-> path, operation |-> operation,
     hash |-> hash]

NetworkSocket(local_addr, remote_addr, protocol, state) ==
    [type |-> "NetworkSocket", local_addr |-> local_addr,
     remote_addr |-> remote_addr, protocol |-> protocol, state |-> state]

SystemLog(source, level, message) ==
    [type |-> "SystemLog", source |-> source, level |-> level,
     message |-> message]

ProcessMonitor(pid, name, cpu_usage, memory_usage) ==
    [type |-> "ProcessMonitor", pid |-> pid, name |-> name,
     cpu_usage |-> cpu_usage, memory_usage |-> memory_usage]

\* LogEvent::new; id stands for Uuid::new_v4() and timestamp for Utc::now()
LogEvent_new(id, timestamp, severity, event_type, hostname) ==
    [id |-> id, timestamp |-> timestamp, severity |-> severity,
     event_type |-> event_type, hostname |-> hostname, tags |-> <<>>,
     rule_triggered |-> FALSE, rule_name |-> None]

with_tag_front(event, tag) == [event EXCEPT !.tags = <<tag>> \o @]

\* LogEvent::with_tag
with_tag(event, tag) == [event EXCEPT !.tags = Append(@, tag)]

with_rule_name_only(event, rule_name) ==
    [event EXCEPT !.rule_name = Some(rule_name)]

with_rule_escalating(event, rule_name) ==
    [event EXCEPT !.rule_triggered = TRUE, !.rule_name = Some(rule_name),
                  !.severity = "Critical"]

\* LogEvent::with_rule
with_rule(event, rule_name) ==
    [event EXCEPT !.rule_triggered = TRUE, !.rule_name = Some(rule_name)]

----------------------------------------------------------------------------
(* guardian-daemon/src/rules.rs *)

BuiltinMatchers ==
    {"critical_file_modification", "high_severity_alert",
     "suspicious_network", "high_cpu_usage"}

\* predicates a caller may register with add_rule
CustomMatchers == {"custom_always", "custom_low", "custom_file"}

\* rule 1: a Modify or Delete of a file whose path names a critical file
MatchCriticalFile(event) ==
    /\ event.event_type.type = "FileIntegrity"
    /\ event.event_type.operation \in {"Modify", "Delete"}
    /\ \/ Contains(event.event_type.path, S_etc \o S_slash \o S_passwd)
       \/ Contains(event.event_type.path, S_etc \o S_slash \o S_shadow)
       \/ Contains(event.event_type.path, S_etc \o S_slash \o S_sudoers)

MatchCriticalSeverityOnly(event) == event.severity = "Critical"

\* rule 2: severity >= High
MatchHighSeverity(event) == SeverityGe(event.severity, "High")

MatchNetworkPort4444Only(event) ==
    /\ event.event_type.type = "NetworkSocket"
    /\ IsSome(event.event_type.remote_addr)
    /\ Contains(event.event_type.remote_addr[1], S_port4444)

\* rule 3: a socket whose remote address is present and names a flagged port
MatchSuspiciousNetwork(event) ==
    /\ event.event_type.type = "NetworkSocket"
    /\ IsSome(event.event_type.remote_addr)
    /\ \/ Contains(event.event_type.remote_addr[1], S_port4444)
       \/ Contains(event.event_type.remote_addr[1], S_port31337)

MatchCpuAtLeast90(event) ==
    /\ event.event_type.type = "ProcessMonitor"
    /\ event.event_type.cpu_usage >= 90

\* rule 4: a process sample with cpu_usage > 90.0
MatchHighCpu(event) ==
    /\ event.event_type.type = "ProcessMonitor"
    /\ event.event_type.cpu_usage > 90

\* the closure of a rule, applied to an event
Matches(matcher, event) ==
    CASE matcher = "critical_file_modification" -> MatchCriticalFile(event)
      [] matcher = "high_severity_alert" -> MatchHighSeverity(event)
      [] matcher = "suspicious_network" -> MatchSuspiciousNetwork(event)
      [] matcher = "high_cpu_usage" -> MatchHighCpu(event)
      [] matcher = "custom_always" -> TRUE
      [] matcher = "custom_low" -> event.severity = "Low"
      [] matcher = "custom_file" -> event.event_type.type = "FileIntegrity"

Rule(name, matcher) == [name |-> name, matcher |-> matcher]

\* RuleEngine::add_rule
add_rule(rules, name, matcher) == Append(rules, Rule(name, matcher))

load_rules_severity_first(rules) ==
    add_rule(
      add_rule(
        add_rule(
          add_rule(rules, "high_severity_alert", "high_severity_alert"),
          "critical_file_modification", "critical_file_modification"),
        "suspicious_network", "suspicious_network"),
      "high_cpu_usage", "high_cpu_usage")

\* RuleEngine::load_default_rules
load_default_rules(rules) ==
    add_rule(
      add_rule(
        add_rule(
          add_rule(rules, "critical_file_modification",
                   "critical_file_modification"),
          "high_severity_alert", "high_severity_alert"),
        "suspicious_network", "suspicious_network"),
      "high_cpu_usage", "high_cpu_usage")

\* RuleEngine::new
RuleEngine_new == load_default_rules(<<>>)

RECURSIVE evaluateFrom(_, _, _)
\* the loop of RuleEngine::evaluate, from the i-th rule on
evaluateFrom(rules, event, i) ==
    IF i > Len(rules) THEN None
    ELSE IF Matches(rules[i].matcher, event) THEN Some(rules[i].name)
    ELSE evaluateFrom(rules, event, i + 1)

RECURSIVE evaluateLastFrom(_, _, _)
evaluateLastFrom(rules, event, i) ==
    IF i < 1 THEN None
    ELSE IF Matches(rules[i].matcher, event) THEN Some(rules[i].name)
    ELSE evaluateLastFrom(rules, event, i - 1)

evaluate_last_match(rules, event) == evaluateLastFrom(rules, event, Len(rules))

\* RuleEngine::evaluate
evaluate(rules, event) == evaluateFrom(rules, event, 1)

----------------------------------------------------------------------------
(* The wire format: LogEvent::to_json (serde_json::to_string)              *)
(* A JSON string is <<"str", x>>, a number <<"num", n>>, null <<"null">>.  *)

JStr(x) == <<"str", x>>
JNum(n) == <<"num", n>>
JNull == <<"null">>
JOpt(o) == IF IsSome(o) THEN JStr(o[1]) ELSE JNull

\* an f32 is modelled by its value in whole percent; a CPU reading is never
\* negative, so a negative number is free to stand for the f32 values that
\* are not finite (NaN, infinity). NaN > 90 is false, as in IEEE 754.
NaN == 0 - 1

\* serde_json writes a non-finite float as null
F32Wire(x) == IF x = NaN THEN JNull ELSE JNum(x)

\* serde(rename_all = "UPPERCASE") on Severity
SeverityWire(s) ==
    CASE s = "Info" -> "INFO"
      [] s = "Low" -> "LOW"
      [] s = "Medium" -> "MEDIUM"
      [] s = "High" -> "HIGH"
      [] s = "Critical" -> "CRITICAL"

\* serde(rename_all = "lowercase") on FileOperation
FileOperationWire(o) ==
    CASE o = "Create" -> "create"
      [] o = "Modify" -> "modify"
      [] o = "Delete" -> "delete"
      [] o = "Rename" -> "rename"
      [] o = "Chmod" -> "chmod"

\* serde(tag = "type", rename_all = "snake_case") on EventType
EventTypeWire(t) ==
    CASE t.type = "FileIntegrity" ->
            [type |-> JStr("file_integrity"), path |-> JStr(t.path),
             operation |-> JStr(FileOperationWire(t.operation)),
             hash |-> JOpt(t.hash)]
      [] t.type = "NetworkSocket" ->
            [type |-> JStr("network_socket"),
             local_addr |-> JStr(t.local_addr),
             remote_addr |-> JOpt(t.remote_addr),
             protocol |-> JStr(t.protocol), state |-> JStr(t.state)]
      [] t.type = "SystemLog" ->
            [type |-> JStr("system_log"), source |-> JStr(t.source),
             level |-> JStr(t.level), message |-> JStr(t.message)]
      [] t.type = "ProcessMonitor" ->
            [type |-> JStr("process_monitor"), pid |-> JNum(t.pid),
             name |-> JStr(t.name), cpu_usage |-> F32Wire(t.cpu_usage),
             memory_usage |-> JNum(t.memory_usage)]

\* LogEvent::to_json; event_type is serde(flatten)ed into the object
to_json(event) ==
    [id |-> JStr(event.id), timestamp |-> JStr(event.timestamp),
     severity |-> JStr(SeverityWire(event.severity)),
     hostname |-> JStr(event.hostname),
     tags |-> [i \in 1..Len(event.tags) |-> JStr(event.tags[i])],
     rule_triggered |-> event.rule_triggered,
     rule_name |-> JOpt(event.rule_name)]
    @@ EventTypeWire(event.event_type)

\* the parse of a field: <<>> is a serde error, <<v>> the value
IsJStr(j) == j[1] = "str"
IsJNum(j) == j[1] = "num"
IsJNull(j) == j[1] = "null"

\* a required String field
ReqStr(json, f) ==
    IF f \in DOMAIN json /\ IsJStr(json[f]) THEN Some(json[f][2]) ELSE None

\* a required number field (u32, u64, f32): null is not a number
ReqNum(json, f) ==
    IF f \in DOMAIN json /\ IsJNum(json[f]) THEN Some(json[f][2]) ELSE None

\* an Option<String> field: missing or null is None
OptStr(json, f) ==
    IF f \notin DOMAIN json \/ IsJNull(json[f]) THEN Some(None)
    ELSE IF IsJStr(json[f]) THEN Some(Some(json[f][2]))
    ELSE None

\* Deserialize for Severity: the UPPERCASE names
SeverityParse(w) ==
    CASE w = "INFO" -> Some("Info")
      [] w = "LOW" -> Some("Low")
      [] w = "MEDIUM" -> Some("Medium")
      [] w = "HIGH" -> Some("High")
      [] w = "CRITICAL" -> Some("Critical")
      [] OTHER -> None

\* Deserialize for FileOperation: the lowercase names
FileOperationParse(w) ==
    CASE w = "create" -> Some("Create")
      [] w = "modify" -> Some("Modify")
      [] w = "delete" -> Some("Delete")
      [] w = "rename" -> Some("Rename")
      [] w = "chmod" -> Some("Chmod")
      [] OTHER -> None

\* Deserialize for EventType: the "type" tag selects the variant
EventTypeParse(json) ==
    LET type == ReqStr(json, "type")
        path == ReqStr(json, "path")
        operation == ReqStr(json, "operation")
        hash == OptStr(json, "hash")
        local_addr == ReqStr(json, "local_addr")
        remote_addr == OptStr(json, "remote_addr")
        protocol == ReqStr(json, "protocol")
        state == ReqStr(json, "state")
        source == ReqStr(json, "source")
        level == ReqStr(json, "level")
        message == ReqStr(json, "message")
        pid == ReqNum(json, "pid")
        name == ReqStr(json, "name")
        cpu_usage == ReqNum(json, "cpu_usage")
        memory_usage == ReqNum(json, "memory_usage")
    IN  IF type = None THEN None
        ELSE CASE type[1] = "file_integrity" ->
                    IF /\ path # None /\ operation # None /\ hash # None
                       /\ FileOperationParse(operation[1]) # None
                    THEN Some(FileIntegrity(path[1],
                                 FileOperationParse(operation[1])[1],
                                 hash[1]))
                    ELSE None
               [] type[1] = "network_socket" ->
                    IF /\ local_addr # None /\ remote_addr # None
                       /\ protocol # None /\ state # None
                    THEN Some(NetworkSocket(local_addr[1], remote_addr[1],
                                            protocol[1], state[1]))
                    ELSE None
               [] type[1] = "system_log" ->
                    IF source # None /\ level # None /\ message # None
                    THEN Some(SystemLog(source[1], level[1], message[1]))
                    ELSE None
               [] type[1] = "process_monitor" ->
                    IF /\ pid # None /\ name # None /\ cpu_usage # None
                       /\ memory_usage # None
                    THEN Some(ProcessMonitor(pid[1], name[1], cpu_usage[1],
                                             memory_usage[1]))
                    ELSE None
               [] OTHER -> None

\* the result of from_json
ParseErr == [ok |-> FALSE]
ParseOk(event) == [ok |-> TRUE, event |-> event]

\* LogEvent::from_json (serde_json::from_str): tags and rule_triggered are
\* serde(default), rule_name is an Option
from_json(json) ==
    LET id == ReqStr(json, "id")
        timestamp == ReqStr(json, "timestamp")
        severity == ReqStr(json, "severity")
        event_type == EventTypeParse(json)
        hostname == ReqStr(json, "hostname")
        tagsOk == \/ "tags" \notin DOMAIN json
                  \/ \A i \in DOMAIN json.tags : IsJStr(json.tags[i])
        tags == IF "tags" \in DOMAIN json
                THEN [i \in 1..Len(json.tags) |-> json.tags[i][2]]
                ELSE <<>>
        rule_triggered == IF "rule_triggered" \in DOMAIN json
                          THEN json.rule_triggered
                          ELSE FALSE
        rule_name == OptStr(json, "rule_name")
    IN  IF /\ id # None /\ timestamp # None /\ severity # None
           /\ SeverityParse(severity[1]) # None
           /\ event_type # None /\ hostname # None /\ tagsOk
           /\ rule_name # None
        THEN ParseOk([id |-> id[1], timestamp |-> timestamp[1],
                      severity |-> SeverityParse(severity[1])[1],
                      event_type |-> event_type[1],
                      hostname |-> hostname[1], tags |-> tags,
                      rule_triggered |-> rule_triggered,
                      rule_name |-> rule_name[1]])
        ELSE ParseErr

----------------------------------------------------------------------------
(* guardian-daemon/src/scanner.rs and process_fs_event                     *)

\* a filesystem notification as the watcher sees it: the notify result
\* (Err, or Ok with kind and paths), and what the filesystem and the
\* scanning engine answer when the watcher asks about the first path
NotifyErr == [ok |-> FALSE]
NotifyOk(kind, paths, is_file, scan) ==
    [ok |-> TRUE, kind |-> kind, paths |-> paths, is_file |-> is_file,
     scan |-> scan]

\* outcome of yara_x::Scanner::scan_file
ScanOk(matching) == [ok |-> TRUE, matching |-> matching]
ScanErr == [ok |-> FALSE]

RECURSIVE collectMatches(_, _, _)
\* the loop of YaraScanner::scan_file over matching_rules()
collectMatches(matching, i, results) ==
    IF i > Len(matching) THEN results
    ELSE collectMatches(matching, i + 1, Append(results, matching[i]))

scan_file_error_as_match(scan) ==
    IF scan.ok THEN collectMatches(scan.matching, 1, <<>>)
    ELSE <<"scan_error">>

\* YaraScanner::scan_file
scan_file(scan) ==
    IF scan.ok THEN collectMatches(scan.matching, 1, <<>>) ELSE <<>>

\* the mapping of notify's EventKind to FileOperation
OperationOf(kind) ==
    CASE kind[1] = "Create" -> Some("Create")
      [] kind[1] = "Modify" -> Some("Modify")
      [] kind[1] = "Remove" -> Some("Delete")
      [] OTHER -> None

BaselineSeveritySuffixFirst(path) ==
    IF EndsWith(path, S_conf) \/ EndsWith(path, S_cfg)
    THEN "Medium"
    ELSE IF Contains(path, S_etc) \/ Contains(path, S_passwd)
            \/ Contains(path, S_shadow)
    THEN "High"
    ELSE "Low"

\* the default severity of a path
BaselineSeverity(path) ==
    IF Contains(path, S_etc) \/ Contains(path, S_passwd)
       \/ Contains(path, S_shadow)
    THEN "High"
    ELSE IF EndsWith(path, S_conf) \/ EndsWith(path, S_cfg)
    THEN "Medium"
    ELSE "Low"

ScanMatchesAnyOperation(scannerOk, operation, is_file, scan) ==
    IF scannerOk /\ is_file THEN scan_file(scan) ELSE <<>>

ScanMatchesWithoutScanner(scannerOk, operation, is_file, scan) ==
    IF operation \in {"Create", "Modify"} /\ is_file
    THEN scan_file(scan)
    ELSE <<>>

\* the scan step of process_fs_event: the match list, empty when no scan
ScanMatches(scannerOk, operation, is_file, scan) ==
    IF scannerOk /\ operation \in {"Create", "Modify"} /\ is_file
    THEN scan_file(scan)
    ELSE <<>>

\* format!("yara:{}", rule)
YaraTag(rule) == <<"yara:", rule>>

RECURSIVE addYaraTags(_, _, _)
\* the loop adding one tag per match
addYaraTags(log_event, rules_matched, i) ==
    IF i > Len(rules_matched) THEN log_event
    ELSE addYaraTags(with_tag(log_event, YaraTag(rules_matched[i])),
                     rules_matched, i + 1)

BuildFsEventLastMatch(id, timestamp, hostname, path, operation, matches) ==
    LET severity == IF matches # <<>> THEN "Critical"
                    ELSE BaselineSeverity(path)
        base == with_tag(
                  LogEvent_new(id, timestamp, severity,
                               FileIntegrity(path, operation, None),
                               hostname),
                  <<"file_monitor">>)
        tagged == addYaraTags(base, matches, 1)
    IN  IF matches # <<>> THEN with_rule(tagged, matches[Len(matches)])
        ELSE tagged

\* the construction of the event once operation and path are known
BuildFsEvent(id, timestamp, hostname, path, operation, matches) ==
    LET severity == IF matches # <<>> THEN "Critical"
                    ELSE BaselineSeverity(path)
        base == with_tag(
                  LogEvent_new(id, timestamp, severity,
                               FileIntegrity(path, operation, None),
                               hostname),
                  <<"file_monitor">>)
        tagged == addYaraTags(base, matches, 1)
    IN  IF matches # <<>> THEN with_rule(tagged, matches[1]) ELSE tagged

\* process_fs_event: Option<LogEvent>
process_fs_event(n, hostname, scannerOk, id, timestamp) ==
    LET operation == OperationOf(n.kind)
    IN  IF ~IsSome(operation) THEN None
        ELSE IF n.paths = <<>> THEN None
        ELSE Some(BuildFsEvent(id, timestamp, hostname, n.paths[1],
                               operation[1],
                               ScanMatches(scannerOk, operation[1],
                                           n.is_file, n.scan)))

----------------------------------------------------------------------------
(* Inputs *)

\* hostname::get(), or "unknown" when it fails
Hostnames == {"host1", "unknown"}

\* global CPU percentages the sampler may read
CpuSamples == {90, 95}

\* used-memory readings
MemSamples == {2048}

\* std::process::id()
Pids == {4242}

P_w_x == S_w \o <<"/", "x">>
P_w_a_conf == S_w \o <<"/", "a">> \o S_conf
P_w_b_cfg == S_w \o <<"/", "b">> \o S_cfg
P_w_shadow == S_w \o S_slash \o S_shadow
P_w_passwd_cfg == S_w \o S_slash \o S_passwd \o S_cfg
P_etc_passwd == S_etc \o S_slash \o S_passwd
P_etc_sudoers == S_etc \o S_slash \o S_sudoers
P_etc_hosts_conf == S_etc \o <<"/", "h">> \o S_conf
P_w_etc_shadow == S_w \o S_etc \o S_slash \o S_shadow
P_w_a_conf_x == P_w_a_conf \o <<"x">>

Paths ==
    {P_w_x, P_w_a_conf, P_w_b_cfg, P_w_shadow, P_w_passwd_cfg, P_etc_passwd,
     P_etc_sudoers, P_etc_hosts_conf, P_w_etc_shadow, P_w_a_conf_x}

\* notify's EventKind with its sub-kind
EventKinds ==
    {<<"Create", "File">>, <<"Modify", "Data">>, <<"Modify", "Name">>,
     <<"Modify", "Metadata">>, <<"Remove", "File">>, <<"Access", "Read">>,
     <<"Any">>, <<"Other">>}

ScanOutcomes ==
    {ScanErr, ScanOk(<<>>), ScanOk(<<"eicar_test_file">>),
     ScanOk(<<"eicar_test_file", "suspicious_shell_script">>),
     ScanOk(<<"python_reverse_shell", "eicar_test_file">>)}

\* every notification the translation is examined on
FsInputs ==
    {NotifyErr}
    \cup {NotifyOk(k, ps, f, sc) :
            k \in EventKinds, ps \in {<<>>} \cup {<<q>> : q \in Paths},
            f \in BOOLEAN, sc \in ScanOutcomes}

\* the notifications delivered while the whole pipeline runs
PipeNotifs ==
    {NotifyErr,
     NotifyOk(<<"Create", "File">>, <<P_w_x>>, TRUE,
              ScanOk(<<"eicar_test_file", "suspicious_shell_script">>)),
     NotifyOk(<<"Modify", "Data">>, <<P_etc_passwd>>, TRUE, ScanOk(<<>>))}

----------------------------------------------------------------------------
(* State *)

VARIABLES
    hostname,     \* main: the host's name
    scannerOk,    \* main: whether YaraScanner::new() succeeded
    rule_engine,  \* the RuleEngine's rules
    evalArg,      \* the event of the last evaluate call on the engine
    evalRet,      \* what that call returned
    pc,           \* where each producer thread is
    held,         \* the event a producer is sending
    seq,          \* events each producer has constructed
    clock,        \* the wall clock read by LogEvent::new
    notifyQ,      \* notify_rx: notifications not yet handled
    fsCount,      \* notifications delivered so far
    fmCur,        \* the notification the watch loop handled last
    queue,        \* the bounded channel's buffer
    waiters,      \* senders waiting for a slot, oldest first
    dPc,          \* where the dispatcher (main's loop) is
    dHeld,        \* the event the dispatcher has received
    output,       \* lines written to stdout
    rtEvent,      \* round trip: the event constructed
    rtJson,       \* round trip: what to_json returned for it
    rtParsed,     \* round trip: what from_json returned for that
    bLines,       \* bridge: lines on stdin not yet read
    bCount,       \* bridge: lines written to its stdin so far
    bPc,          \* bridge: where main is
    bInserts,     \* bridge: the calls of insert_event, with their results
    bLog,         \* bridge: what it logged with error!
    sLines,       \* sentinel: daemon stdout lines not yet received
    sCount,       \* sentinel: lines the daemon has written so far
    sPool,        \* sentinel: AppState.pool is Some
    sLock,        \* sentinel: the task holding the Mutex<AppState>
    sInitPc,      \* sentinel: where the database-initialisation task is
    sOutPc,       \* sentinel: where the daemon-output task is
    sEvent,       \* sentinel: the event the output task has parsed
    sStored,      \* sentinel: events inserted into the database
    sLog,         \* sentinel: what it logged with error!
    sEmitted      \* sentinel: events emitted to the frontend

vars ==
    <<hostname, scannerOk, rule_engine, evalArg, evalRet, pc, held, seq,
      clock, notifyQ, fsCount, fmCur, queue, waiters, dPc, dHeld, output,
      rtEvent, rtJson, rtParsed, bLines, bCount, bPc, bInserts, bLog,
      sLines, sCount, sPool, sLock, sInitPc, sOutPc, sEvent, sStored, sLog,
      sEmitted>>

engineVars == <<rule_engine, evalArg, evalRet>>
mainVars == <<hostname, scannerOk>>
watchVars == <<notifyQ, fsCount, fmCur>>
dispVars == <<dPc, dHeld, output>>
jsonVars == <<rtEvent, rtJson, rtParsed>>
bridgeVars == <<bLines, bCount, bPc, bInserts, bLog>>
sentinelVars ==
    <<sLines, sCount, sPool, sLock, sInitPc, sOutPc, sEvent, sStored, sLog,
      sEmitted>>
daemonVars ==
    <<hostname, scannerOk, rule_engine, evalArg, evalRet, pc, held, seq,
      clock, notifyQ, fsCount, fmCur, queue, waiters, dPc, dHeld, output>>

Producers == {"fm", "sys"}

\* the receiver exists while main is in its loop
RxAlive == dPc \in {"recv", "print"}

\* the Sender handles alive: main's tx and each running producer's clone
Senders ==
    (IF RxAlive THEN {"main"} ELSE {})
    \cup {p \in Producers : pc[p] \notin {"done", "failed"}}

\* where a producer's loop continues after a send
LoopPc(p) == IF p = "fm" THEN "recv" ELSE "sample"

EnqueueFront(q, event) == <<event>> \o q

\* the channel's buffer takes a value at its tail
Enqueue(q, event) == Append(q, event)

\* the state in which the watcher is at fm_pc with `notified` in notify_rx
InitWith(fm_pc, notified) ==
    /\ hostname \in Hostnames
    /\ scannerOk \in BOOLEAN
    /\ rule_engine = RuleEngine_new
    /\ evalArg = None
    /\ evalRet = None
    /\ pc = [p \in Producers |-> IF p = "fm" THEN fm_pc ELSE "sample"]
    /\ held = [p \in Producers |-> None]
    /\ seq = [p \in Producers |-> 0]
    /\ clock = 0
    /\ notifyQ = notified
    /\ fsCount = Len(notified)
    /\ fmCur = None
    /\ queue = <<>>
    /\ waiters = <<>>
    /\ dPc = "recv"
    /\ dHeld = None
    /\ output = <<>>
    /\ rtEvent = None
    /\ rtJson = None
    /\ rtParsed = None
    /\ bLines = <<>>
    /\ bCount = 0
    /\ bPc = "read"
    /\ bInserts = <<>>
    /\ bLog = <<>>
    /\ sLines = <<>>
    /\ sCount = 0
    /\ sPool = FALSE
    /\ sLock = None
    /\ sInitPc = "start"
    /\ sOutPc = "spawn"
    /\ sEvent = None
    /\ sStored = <<>>
    /\ sLog = <<>>
    /\ sEmitted = <<>>

\* main has set up the channel, the engine and the scanner and spawned
\* the two producer tasks
Init == InitWith("start", <<>>)

----------------------------------------------------------------------------
(* FileActivityWatcher: start_file_monitor *)

\* the watcher is created, the root exists and is watched
FmStartOk ==
    /\ pc["fm"] = "start"
    /\ pc' = [pc EXCEPT !["fm"] = "recv"]
    /\ UNCHANGED <<mainVars, bridgeVars, sentinelVars, jsonVars, engineVars, held, seq, clock, watchVars, queue,
                   waiters, dispVars>>

\* one of the three `?` of the startup fails: the task logs and ends
FmStartFail ==
    /\ pc["fm"] = "start"
    /\ pc' = [pc EXCEPT !["fm"] = "failed"]
    /\ UNCHANGED <<mainVars, bridgeVars, sentinelVars, jsonVars, engineVars, held, seq, clock, watchVars, queue,
                   waiters, dispVars>>

FsNotifyDropWhenBusy(n) ==
    /\ pc["fm"] \in {"recv", "send", "blocked"}
    /\ fsCount < MaxFsEvents
    /\ notifyQ' = IF pc["fm"] = "recv" THEN Append(notifyQ, n) ELSE notifyQ
    /\ fsCount' = fsCount + 1
    /\ UNCHANGED <<mainVars, bridgeVars, sentinelVars, jsonVars, engineVars, pc, held, seq, clock,
                   fmCur, queue, waiters, dispVars>>

\* the filesystem notifier delivers a notification into notify_rx
FsNotify(n) ==
    /\ pc["fm"] \in {"recv", "send", "blocked"}
    /\ fsCount < MaxFsEvents
    /\ notifyQ' = Append(notifyQ, n)
    /\ fsCount' = fsCount + 1
    /\ UNCHANGED <<mainVars, bridgeVars, sentinelVars, jsonVars, engineVars, pc, held, seq, clock, fmCur, queue,
                   waiters, dispVars>>

\* one iteration of `for res in notify_rx` up to the send
FmProcess ==
    /\ pc["fm"] = "recv"
    /\ notifyQ # <<>>
    /\ LET res == Head(notifyQ)
           log_event ==
               IF res.ok
               THEN process_fs_event(res, hostname, scannerOk,
                                     <<"fm", seq["fm"] + 1>>, clock + 1)
               ELSE None
       IN  /\ notifyQ' = Tail(notifyQ)
           /\ fmCur' = Some(res)
           /\ IF IsSome(log_event)
              THEN /\ held' = [held EXCEPT !["fm"] = log_event]
                   /\ pc' = [pc EXCEPT !["fm"] = "send"]
                   /\ seq' = [seq EXCEPT !["fm"] = @ + 1]
                   /\ clock' = clock + 1
              ELSE UNCHANGED <<held, pc, seq, clock>>
    /\ UNCHANGED <<mainVars, bridgeVars, sentinelVars, jsonVars, engineVars, fsCount, queue, waiters, dispVars>>

----------------------------------------------------------------------------
(* SystemSampler: monitor_system *)

\* the head of the loop: refresh, read the metrics, build the event
SysSample ==
    /\ pc["sys"] = "sample"
    /\ seq["sys"] < MaxSamples + (IF RxAlive THEN 0 ELSE 1)
    /\ \E pid \in Pids, cpu_usage \in CpuSamples, memory_usage \in MemSamples :
          held' = [held EXCEPT !["sys"] =
                     Some(with_tag(
                            LogEvent_new(<<"sys", seq["sys"] + 1>>, clock + 1,
                                         "Info",
                                         ProcessMonitor(pid, "system",
                                                        cpu_usage,
                                                        memory_usage),
                                         hostname),
                            <<"system_monitor">>))]
    /\ pc' = [pc EXCEPT !["sys"] = "send"]
    /\ seq' = [seq EXCEPT !["sys"] = @ + 1]
    /\ clock' = clock + 1
    /\ UNCHANGED <<mainVars, bridgeVars, sentinelVars, jsonVars, engineVars, watchVars, queue, waiters, dispVars>>

----------------------------------------------------------------------------
(* The bounded channel: mpsc::channel(Capacity), blocking_send, recv *)

SendErrContinues(p) == LoopPc(p)

\* where a producer goes when blocking_send returns Err: it breaks
SendErrPc(p) == "done"

BlockSenderUnqueued(p) ==
    /\ pc' = [pc EXCEPT ![p] = "blocked"]
    /\ UNCHANGED <<queue, held, waiters>>

DropWhenFull(p) ==
    /\ pc' = [pc EXCEPT ![p] = LoopPc(p)]
    /\ held' = [held EXCEPT ![p] = None]
    /\ UNCHANGED <<queue, waiters>>

\* blocking_send on a full queue: the sender keeps its event and waits
BlockSender(p) ==
    /\ pc' = [pc EXCEPT ![p] = "blocked"]
    /\ waiters' = Append(waiters, p)
    /\ UNCHANGED <<queue, held>>

\* blocking_send is called with the event the producer built
Send(p) ==
    /\ pc[p] = "send"
    /\ IF ~RxAlive
       THEN /\ pc' = [pc EXCEPT ![p] = SendErrPc(p)]
            /\ held' = [held EXCEPT ![p] = None]
            /\ UNCHANGED <<queue, waiters>>
       ELSE IF Len(queue) < Capacity
       THEN /\ queue' = Enqueue(queue, held[p][1])
            /\ pc' = [pc EXCEPT ![p] = LoopPc(p)]
            /\ held' = [held EXCEPT ![p] = None]
            /\ UNCHANGED waiters
       ELSE BlockSender(p)
    /\ UNCHANGED <<mainVars, bridgeVars, sentinelVars, jsonVars, engineVars, seq, clock, watchVars, dispVars>>

\* a sender waiting for a slot is woken because the receiver is gone
SendWoken(p) ==
    /\ pc[p] = "blocked"
    /\ ~RxAlive
    /\ pc' = [pc EXCEPT ![p] = SendErrPc(p)]
    /\ held' = [held EXCEPT ![p] = None]
    /\ UNCHANGED <<mainVars, bridgeVars, sentinelVars, jsonVars, engineVars, seq, clock, watchVars, queue,
                   waiters, dispVars>>

FreeSlotNewestFirst ==
    IF waiters # <<>>
    THEN LET w == waiters[Len(waiters)]
         IN  /\ queue' = Enqueue(Tail(queue), held[w][1])
             /\ waiters' = SubSeq(waiters, 1, Len(waiters) - 1)
             /\ pc' = [pc EXCEPT ![w] = LoopPc(w)]
             /\ held' = [held EXCEPT ![w] = None]
    ELSE /\ queue' = Tail(queue)
         /\ UNCHANGED <<waiters, pc, held>>

FreeSlotNoWake ==
    /\ queue' = Tail(queue)
    /\ UNCHANGED <<waiters, pc, held>>

\* recv took the head: the freed slot goes to the oldest waiting sender,
\* whose send completes
FreeSlot ==
    IF waiters # <<>>
    THEN LET w == Head(waiters)
         IN  /\ queue' = Enqueue(Tail(queue), held[w][1])
             /\ waiters' = Tail(waiters)
             /\ pc' = [pc EXCEPT ![w] = LoopPc(w)]
             /\ held' = [held EXCEPT ![w] = None]
    ELSE /\ queue' = Tail(queue)
         /\ UNCHANGED <<waiters, pc, held>>

----------------------------------------------------------------------------
(* EventDispatcher: the loop of main *)

StampKeepExisting(event) ==
    LET rule_name == evaluate(rule_engine, event)
    IN  IF IsSome(rule_name) /\ ~IsSome(event.rule_name)
        THEN with_rule(event, rule_name[1])
        ELSE event

\* the body of the loop up to the output: evaluate, then with_rule
Stamp(event) ==
    LET rule_name == evaluate(rule_engine, event)
    IN  IF IsSome(rule_name) THEN with_rule(event, rule_name[1]) ELSE event

\* rx.recv().await: Some(event), or None once every Sender is dropped
DispatcherRecv ==
    /\ dPc = "recv"
    /\ IF queue # <<>>
       THEN /\ dHeld' = Some(Stamp(Head(queue)))
            /\ dPc' = "print"
            /\ FreeSlot
       ELSE /\ Senders = {}
            /\ dPc' = "done"
            /\ UNCHANGED <<dHeld, queue, waiters, pc, held>>
    /\ UNCHANGED <<mainVars, bridgeVars, sentinelVars, jsonVars, engineVars, seq, clock, watchVars, output>>

DispatcherPrintSkip ==
    /\ dPc = "print"
    /\ output' = IF dHeld[1].rule_triggered
                 THEN Append(output, to_json(dHeld[1]))
                 ELSE output
    /\ dHeld' = None
    /\ dPc' = "recv"
    /\ UNCHANGED <<mainVars, bridgeVars, sentinelVars, jsonVars, engineVars, pc, held, seq, clock,
                   watchVars, queue, waiters>>

\* println!("{}", json); to_json has no failing case for a LogEvent (a
\* non-finite cpu_usage is written as null), so its Err arm is not taken
DispatcherPrint ==
    /\ dPc = "print"
    /\ output' = Append(output, to_json(dHeld[1]))
    /\ dHeld' = None
    /\ dPc' = "recv"
    /\ UNCHANGED <<mainVars, bridgeVars, sentinelVars, jsonVars, engineVars, pc, held, seq, clock, watchVars,
                   queue, waiters>>

\* println! panics when the write to stdout fails: main unwinds and drops
\* rx (with the queued events) and tx
DispatcherPrintFail ==
    /\ dPc = "print"
    /\ dPc' = "panicked"
    /\ dHeld' = None
    /\ queue' = <<>>
    /\ waiters' = <<>>
    /\ UNCHANGED <<mainVars, bridgeVars, sentinelVars, jsonVars, engineVars, pc, held, seq, clock, watchVars,
                   output>>

----------------------------------------------------------------------------
(* The pipeline *)

Next ==
    \/ FmStartOk
    \/ FmStartFail
    \/ \E n \in PipeNotifs : FsNotify(n)
    \/ FmProcess
    \/ SysSample
    \/ \E p \in Producers : Send(p)
    \/ \E p \in Producers : SendWoken(p)
    \/ DispatcherRecv
    \/ DispatcherPrint
    \/ DispatcherPrintFail

Spec == Init /\ [][Next]_vars

\* the runs examined for progress: one host name, the scanner available
InitFair == Init /\ hostname = "host1" /\ scannerOk = TRUE

\* every thread that can take a step eventually takes one, and a write
\* the sink can accept is eventually made
FairSpec ==
    /\ InitFair
    /\ [][Next]_vars
    /\ WF_vars(FmStartOk \/ FmStartFail)
    /\ WF_vars(FmProcess)
    /\ WF_vars(SysSample)
    /\ \A p \in Producers : WF_vars(Send(p))
    /\ \A p \in Producers : WF_vars(SendWoken(p))
    /\ WF_vars(DispatcherRecv)
    /\ WF_vars(DispatcherPrint)

----------------------------------------------------------------------------
(* The rule engine as an object: add_rule and evaluate called by a client *)

\* names a client gives to the rules it adds
CustomNames == {"custom_a", "custom_b"}

\* enum FileOperation
FileOperation == {"Create", "Modify", "Delete", "Rename", "Chmod"}

A_port4444 == S_addr \o S_port4444
A_port31337 == S_addr \o S_port31337
A_port80 == S_addr \o <<":", "8", "0">>

\* the paths of the file events handed to evaluate: the three critical
\* files and one file that only shares a name with one of them
EvalPaths == {P_etc_passwd, P_etc_sudoers, P_w_etc_shadow, P_w_shadow}

\* events handed to evaluate
EvalEventTypes ==
    {FileIntegrity(path, operation, None) :
        path \in EvalPaths, operation \in FileOperation}
    \cup
    {FileIntegrity(P_w_etc_shadow, "Delete", Some("abc123")),
     NetworkSocket(S_addr, Some(A_port4444), "tcp", "open"),
     NetworkSocket(S_addr, Some(A_port31337), "tcp", "open"),
     NetworkSocket(S_addr, Some(A_port80), "tcp", "open"),
     NetworkSocket(S_addr, None, "tcp", "open"),
     SystemLog("kernel", "error", "panic"),
     ProcessMonitor(4242, "system", 95, 2048),
     ProcessMonitor(4242, "system", 90, 2048),
     ProcessMonitor(4242, "system", 50, 2048)}

EvalEvents ==
    {LogEvent_new(<<"client", 1>>, 1, s, t, "host1") :
        s \in SeveritySet, t \in EvalEventTypes}

InitRules ==
    /\ Init
    /\ hostname = "host1"
    /\ scannerOk

\* engine.add_rule(name, matcher)
AddRule(name, matcher) ==
    /\ Len(rule_engine) < Len(RuleEngine_new) + MaxAdded
    /\ rule_engine' = add_rule(rule_engine, name, matcher)
    /\ evalArg' = None
    /\ evalRet' = None
    /\ UNCHANGED <<mainVars, bridgeVars, sentinelVars, jsonVars, pc, held, seq, clock, watchVars, queue, waiters,
                   dispVars>>

\* engine.evaluate(&event)
Evaluate(event) ==
    /\ evalArg' = Some(event)
    /\ evalRet' = evaluate(rule_engine, event)
    /\ UNCHANGED <<mainVars, bridgeVars, sentinelVars, jsonVars, rule_engine, pc, held, seq, clock, watchVars,
                   queue, waiters, dispVars>>

NextRules ==
    \/ \E name \in CustomNames, matcher \in CustomMatchers :
          AddRule(name, matcher)
    \/ \E event \in EvalEvents : Evaluate(event)

SpecRules == InitRules /\ [][NextRules]_vars

\* the indices of the rules whose predicate holds for the event
MatchingIndices(rules, event) ==
    {i \in 1..Len(rules) : Matches(rules[i].matcher, event)}

\* C1: evaluate returns the name of the first rule, in registration order
\* (the four built-ins, then the added rules in the order added), whose
\* predicate holds for the event, and none exactly when no predicate holds;
\* so an added rule's name is returned only when no built-in matches.
C1_FirstMatchWins ==
    IsSome(evalArg) =>
        LET event == evalArg[1]
            M == MatchingIndices(rule_engine, event)
        IN  /\ SubSeq(rule_engine, 1, Len(RuleEngine_new)) = RuleEngine_new
            /\ (M = {}) <=> (evalRet = None)
            /\ M # {} =>
                 \E i \in M :
                    /\ \A j \in M : i <= j
                    /\ evalRet = Some(rule_engine[i].name)
            /\ (\E i \in M : i <= Len(RuleEngine_new)) =>
                 /\ IsSome(evalRet)
                 /\ evalRet[1] \in BuiltinMatchers

\* an added rule matches the event together with a later added rule and no
\* built-in does: the earlier added rule's name is returned
C1_Witness ==
    /\ IsSome(evalArg)
    /\ Len(rule_engine) = Len(RuleEngine_new) + 2
    /\ MatchingIndices(rule_engine, evalArg[1])
         = {Len(RuleEngine_new) + 1, Len(RuleEngine_new) + 2}
    /\ evalRet = Some(rule_engine[Len(RuleEngine_new) + 1].name)
    /\ rule_engine[Len(RuleEngine_new) + 1].name
         # rule_engine[Len(RuleEngine_new) + 2].name

----------------------------------------------------------------------------
(* The watcher's translation on its own: one notification, any kind *)

InitFs == \E n \in FsInputs : InitWith("recv", <<n>>)

NextFs ==
    \/ FmProcess
    \/ Send("fm")

SpecFs == InitFs /\ [][NextFs]_vars

\* two notifications in a row: a created or modified regular file whose
\* scan fails, then any change of another file
ScanFailInputs ==
    {NotifyOk(k, <<q>>, TRUE, ScanErr) :
        k \in {<<"Create", "File">>, <<"Modify", "Data">>}, q \in Paths}

LaterInputs ==
    {NotifyErr}
    \cup {NotifyOk(k, <<P_w_x>>, f, sc) :
            k \in EventKinds, f \in BOOLEAN, sc \in ScanOutcomes}

InitFsScanErr ==
    \E n1 \in ScanFailInputs, n2 \in LaterInputs :
       InitWith("recv", <<n1, n2>>)

SpecFsScanErr == InitFsScanErr /\ [][NextFs]_vars

\* the same with the dispatcher behind the watcher
NextFsDispatch ==
    \/ NextFs
    \/ DispatcherRecv
    \/ DispatcherPrint

SpecFsDispatch == InitFs /\ [][NextFsDispatch]_vars

----------------------------------------------------------------------------
(* The wire format on its own: construct an event, to_json, from_json *)

\* the kinds of the events constructed: every variant, optional fields
\* present and absent, a finite and a non-finite CPU reading
WireEventTypes ==
    {FileIntegrity(P_w_x, operation, None) : operation \in FileOperation}
    \cup
    {FileIntegrity(P_etc_passwd, "Modify", Some("abc123")),
     NetworkSocket(S_addr, Some(A_port4444), "tcp", "open"),
     NetworkSocket(S_addr, None, "tcp", "open"),
     SystemLog("kernel", "error", "panic"),
     ProcessMonitor(4242, "system", 95, 2048),
     ProcessMonitor(4242, "system", NaN, 2048)}

\* the tags pushed by with_tag
WireTags ==
    {<<>>, <<(<<"file_monitor">>)>>,
     <<(<<"file_monitor">>), YaraTag("eicar_test_file")>>}

\* rule names given to with_rule; None: with_rule is not called
WireRules == {None, Some("high_severity_alert")}

RECURSIVE with_tags(_, _)
with_tags(event, tags) ==
    IF tags = <<>> THEN event
    ELSE with_tags(with_tag(event, Head(tags)), Tail(tags))

\* LogEvent::new(..).with_tag(..)*.with_rule(..)?
Construct(severity, event_type, tags, rule) ==
    /\ rtEvent' =
          LET event == with_tags(LogEvent_new(<<"fm", 1>>, clock + 1,
                                              severity, event_type,
                                              hostname),
                                 tags)
          IN  Some(IF IsSome(rule) THEN with_rule(event, rule[1])
                   ELSE event)
    /\ rtJson' = None
    /\ rtParsed' = None
    /\ UNCHANGED <<mainVars, bridgeVars, sentinelVars, engineVars, pc, held, seq, clock, watchVars,
                   queue, waiters, dispVars>>

\* let json = event.to_json().unwrap()
ToJson ==
    /\ IsSome(rtEvent)
    /\ rtJson = None
    /\ rtJson' = Some(to_json(rtEvent[1]))
    /\ UNCHANGED <<mainVars, bridgeVars, sentinelVars, engineVars, pc, held, seq, clock, watchVars,
                   queue, waiters, dispVars, rtEvent, rtParsed>>

\* LogEvent::from_json(&json)
FromJson ==
    /\ IsSome(rtJson)
    /\ rtParsed = None
    /\ rtParsed' = Some(from_json(rtJson[1]))
    /\ UNCHANGED <<mainVars, bridgeVars, sentinelVars, engineVars, pc, held, seq, clock, watchVars,
                   queue, waiters, dispVars, rtEvent, rtJson>>

NextJson ==
    \/ \E severity \in SeveritySet, event_type \in WireEventTypes,
          tags \in WireTags, rule \in WireRules :
          Construct(severity, event_type, tags, rule)
    \/ ToJson
    \/ FromJson

SpecJson == Init /\ [][NextJson]_vars

----------------------------------------------------------------------------
(* A line of text on a pipe. It is modelled by what its readers look at:   *)
(* whether its bytes are valid UTF-8, the characters it begins with, and   *)
(* the JSON object that follows them, if one does.                         *)

TextLine(utf8, lead, json) == [utf8 |-> utf8, lead |-> lead, json |-> json]

Whitespace == {" ", "\t"}

RECURSIVE trim_start(_)
\* str::trim_start
trim_start(chars) ==
    IF chars # <<>> /\ Head(chars) \in Whitespace
    THEN trim_start(Tail(chars))
    ELSE chars

\* line.trim_start().starts_with('{'): the text of an object begins with it
StartsWithBrace(line) ==
    LET rest == trim_start(line.lead)
    IN  IF rest # <<>> THEN Head(rest) = "{" ELSE IsSome(line.json)

\* event_str.trim().is_empty()
IsBlank(line) == trim_start(line.lead) = <<>> /\ ~IsSome(line.json)

\* serde_json::from_str on the line: leading whitespace is skipped, any
\* other text in front of the object (or no object) is a syntax error
ParseLine(line) ==
    IF trim_start(line.lead) = <<>> /\ IsSome(line.json)
    THEN from_json(line.json[1])
    ELSE ParseErr

\* the events whose lines are written to the pipes
PipeEvent1 ==
    with_tag(LogEvent_new(<<"sys", 1>>, 1, "Info",
                          ProcessMonitor(4242, "system", 95, 2048), "host1"),
             <<"system_monitor">>)
PipeEvent2 ==
    with_rule(with_tag(LogEvent_new(<<"fm", 1>>, 2, "High",
                                    FileIntegrity(P_etc_passwd, "Modify",
                                                  None),
                                    "host1"),
                       <<"file_monitor">>),
              "critical_file_modification")
PipeEventNaN ==
    with_tag(LogEvent_new(<<"sys", 2>>, 3, "Info",
                          ProcessMonitor(4242, "system", NaN, 2048), "host1"),
             <<"system_monitor">>)

\* lines of events, one of them indented
EventLines ==
    {TextLine(TRUE, <<>>, Some(to_json(PipeEvent1))),
     TextLine(TRUE, <<>>, Some(to_json(PipeEvent2))),
     TextLine(TRUE, <<" ">>, Some(to_json(PipeEvent1)))}

\* a log message, an object cut short, the line of an event whose
\* cpu_usage is not finite
OtherLines ==
    {TextLine(TRUE, <<"I", "N", "F", "O">>, None),
     TextLine(TRUE, <<"{", "x">>, None),
     TextLine(TRUE, <<>>, Some(to_json(PipeEventNaN)))}

\* a line whose bytes are not valid UTF-8
BadUtf8Line == TextLine(FALSE, <<>>, None)

----------------------------------------------------------------------------
(* guardian-bridge: main *)

BridgeLines == EventLines \cup OtherLines \cup {BadUtf8Line}

\* a line is written to the bridge's stdin, which is still open
BridgeInput(line) ==
    /\ bPc # "done"
    /\ bCount < MaxLines
    /\ bLines' = Append(bLines, line)
    /\ bCount' = bCount + 1
    /\ UNCHANGED <<daemonVars, jsonVars, sentinelVars, bPc, bInserts, bLog>>

\* the rows of the events table: the ids inserted with success
BridgeRows == {bInserts[i].event.id : i \in {j \in DOMAIN bInserts : bInserts[j].ok}}

\* insert_event: the INSERT fails on an id that is already there (PRIMARY
\* KEY) and may fail for reasons of the database
InsertResults(event) ==
    IF event.id \in BridgeRows THEN {FALSE} ELSE BOOLEAN

\* one iteration of `for line in reader.lines()`
BridgeLine ==
    /\ bPc = "read"
    /\ bLines # <<>>
    /\ bLines' = Tail(bLines)
    /\ LET line == Head(bLines)
           parsed == ParseLine(line)
       IN  IF ~line.utf8
           THEN /\ bPc' = "failed"
                /\ UNCHANGED <<bInserts, bLog>>
           ELSE IF ~StartsWithBrace(line)
           THEN UNCHANGED <<bPc, bInserts, bLog>>
           ELSE IF parsed.ok
           THEN \E ok \in InsertResults(parsed.event) :
                   /\ bInserts' = Append(bInserts,
                                         [event |-> parsed.event, ok |-> ok])
                   /\ bLog' = IF ok THEN bLog
                              ELSE Append(bLog, <<"Failed to store event",
                                                  parsed.event.id>>)
                   /\ UNCHANGED bPc
           ELSE /\ bLog' = Append(bLog, <<"Failed to parse event JSON", line>>)
                /\ UNCHANGED <<bPc, bInserts>>
    /\ UNCHANGED <<daemonVars, jsonVars, sentinelVars, bCount>>

\* stdin is at its end: the loop ends and main returns Ok
BridgeEof ==
    /\ bPc = "read"
    /\ bLines = <<>>
    /\ bPc' = "done"
    /\ UNCHANGED <<daemonVars, jsonVars, sentinelVars, bLines, bCount,
                   bInserts, bLog>>

NextBridge ==
    \/ \E line \in BridgeLines : BridgeInput(line)
    \/ BridgeLine
    \/ BridgeEof

SpecBridge == InitFair /\ [][NextBridge]_vars

----------------------------------------------------------------------------
(* guardian-sentinel: the two tasks spawned by setup *)

SentinelLines == EventLines \cup OtherLines

\* the task of setup: lock the state ...
InitDbLock ==
    /\ sInitPc = "start"
    /\ sLock = None
    /\ sLock' = Some("init")
    /\ sInitPc' = "init_db"
    /\ UNCHANGED <<daemonVars, jsonVars, bridgeVars, sLines, sCount, sPool,
                   sOutPc, sEvent, sStored, sLog, sEmitted>>

\* ... and AppState::init_db under the lock: the pool is set, or the error
\* is logged and the pool stays None
InitDb ==
    /\ sInitPc = "init_db"
    /\ \E ok \in BOOLEAN :
          /\ sPool' = ok
          /\ sInitPc' = IF ok THEN "done" ELSE "failed"
          /\ sLog' = IF ok THEN sLog
                     ELSE Append(sLog, <<"Failed to initialize database">>)
    /\ sLock' = None
    /\ UNCHANGED <<daemonVars, jsonVars, bridgeVars, sLines, sCount, sOutPc,
                   sEvent, sStored, sEmitted>>

\* spawn_daemon: cmd.spawn() succeeds and the output task starts
SpawnDaemonOk ==
    /\ sOutPc = "spawn"
    /\ sOutPc' = "recv"
    /\ UNCHANGED <<daemonVars, jsonVars, bridgeVars, sLines, sCount, sPool,
                   sLock, sInitPc, sEvent, sStored, sLog, sEmitted>>

\* spawn_daemon returns Err, which setup's task logs
SpawnDaemonFail ==
    /\ sOutPc = "spawn"
    /\ sOutPc' = "failed"
    /\ sLog' = Append(sLog, <<"Daemon error">>)
    /\ UNCHANGED <<daemonVars, jsonVars, bridgeVars, sLines, sCount, sPool,
                   sLock, sInitPc, sEvent, sStored, sEmitted>>

\* the daemon writes a line to its stdout
DaemonLine(line) ==
    /\ sOutPc \notin {"spawn", "failed"}
    /\ sCount < MaxLines
    /\ sLines' = Append(sLines, line)
    /\ sCount' = sCount + 1
    /\ UNCHANGED <<daemonVars, jsonVars, bridgeVars, sPool, sLock, sInitPc,
                   sOutPc, sEvent, sStored, sLog, sEmitted>>

\* rx.recv() gives a Stdout line: a blank one is skipped, one that is not
\* an event is logged with info!, an event goes on to be stored
OutputRecv ==
    /\ sOutPc = "recv"
    /\ sLines # <<>>
    /\ sLines' = Tail(sLines)
    /\ LET line == Head(sLines)
           parsed == ParseLine(line)
       IN  IF ~IsBlank(line) /\ parsed.ok
           THEN sEvent' = Some(parsed.event) /\ sOutPc' = "lock"
           ELSE UNCHANGED <<sEvent, sOutPc>>
    /\ UNCHANGED <<daemonVars, jsonVars, bridgeVars, sCount, sPool, sLock,
                   sInitPc, sStored, sLog, sEmitted>>

\* state.lock().await
OutputLock ==
    /\ sOutPc = "lock"
    /\ sLock = None
    /\ sLock' = Some("out")
    /\ sOutPc' = "store"
    /\ UNCHANGED <<daemonVars, jsonVars, bridgeVars, sLines, sCount, sPool,
                   sInitPc, sEvent, sStored, sLog, sEmitted>>

\* the ids in the events table
SentinelRows == {sStored[i].id : i \in DOMAIN sStored}

\* AppState::store_event under the lock, then drop(state_lock): pool()
\* fails while the pool is None; the INSERT fails on an id already there
\* and may fail for reasons of the database
OutputStore ==
    /\ sOutPc = "store"
    /\ IF ~sPool
       THEN /\ sLog' = Append(sLog, <<"Failed to store event",
                                      "Database not initialized">>)
            /\ UNCHANGED sStored
       ELSE \E ok \in (IF sEvent[1].id \in SentinelRows THEN {FALSE}
                       ELSE BOOLEAN) :
               IF ok
               THEN sStored' = Append(sStored, sEvent[1]) /\ UNCHANGED sLog
               ELSE /\ sLog' = Append(sLog, <<"Failed to store event",
                                              "insert">>)
                    /\ UNCHANGED sStored
    /\ sLock' = None
    /\ sOutPc' = "emit"
    /\ UNCHANGED <<daemonVars, jsonVars, bridgeVars, sLines, sCount, sPool,
                   sInitPc, sEvent, sEmitted>>

\* app.emit("realtime-event", &log_event); a failure is logged
OutputEmit ==
    /\ sOutPc = "emit"
    /\ \E ok \in BOOLEAN :
          IF ok
          THEN sEmitted' = Append(sEmitted, sEvent[1]) /\ UNCHANGED sLog
          ELSE /\ sLog' = Append(sLog, <<"Failed to emit event">>)
               /\ UNCHANGED sEmitted
    /\ sEvent' = None
    /\ sOutPc' = "recv"
    /\ UNCHANGED <<daemonVars, jsonVars, bridgeVars, sLines, sCount, sPool,
                   sLock, sInitPc, sStored>>

NextSentinel ==
    \/ InitDbLock
    \/ InitDb
    \/ SpawnDaemonOk
    \/ SpawnDaemonFail
    \/ \E line \in SentinelLines : DaemonLine(line)
    \/ OutputRecv
    \/ OutputLock
    \/ OutputStore
    \/ OutputEmit

SpecSentinel == InitFair /\ [][NextSentinel]_vars

----------------------------------------------------------------------------
(* Where events are *)

\* the events in the producers' hands, in the queue and with the dispatcher
LiveEvents ==
    {held[p][1] : p \in {q \in Producers : IsSome(held[q])}}
    \cup {queue[i] : i \in DOMAIN queue}
    \cup {dHeld[i] : i \in DOMAIN dHeld}

\* ids of the events each producer has constructed
Constructed == UNION {{<<p, n>> : n \in 1..seq[p]} : p \in Producers}

\* the event id of an output line
LineId(line) == line.id[2]

InHeld(id) ==
    Cardinality({p \in Producers : IsSome(held[p]) /\ held[p][1].id = id})
InQueue(id) == Cardinality({i \in DOMAIN queue : queue[i].id = id})
InDispatcher(id) == Cardinality({i \in DOMAIN dHeld : dHeld[i].id = id})
InOutput(id) == Cardinality({i \in DOMAIN output : LineId(output[i]) = id})

----------------------------------------------------------------------------
(* Claims *)

\* C2: at every point of the pipeline (built and enriched by a producer,
\* in the queue, stamped by the dispatcher, written to the sink) an event
\* has rule_triggered true exactly when it has a rule_name.
C2_RuleTriggeredIffRuleName ==
    /\ \A event \in LiveEvents :
          event.rule_triggered = IsSome(event.rule_name)
    /\ \A i \in DOMAIN output :
          output[i].rule_triggered = (output[i].rule_name # JNull)

\* the sink has an event the watcher and the dispatcher both gave a rule
\* and an event without any rule
C2_Witness ==
    /\ \E i \in DOMAIN output :
          /\ output[i].rule_triggered
          /\ \E k \in DOMAIN output[i].tags :
                output[i].tags[k] = JStr(YaraTag("eicar_test_file"))
    /\ \E i \in DOMAIN output : ~output[i].rule_triggered

\* C3: the events of one producer leave the dispatcher in the order in
\* which that producer sent them, whatever the interleaving; events of
\* different producers are not ordered.
C3_PerProducerFifo ==
    \A i, j \in DOMAIN output :
        (i < j /\ LineId(output[i])[1] = LineId(output[j])[1])
            => LineId(output[i])[2] < LineId(output[j])[2]

\* both producers got two events through and they are interleaved
C3_Witness ==
    /\ \A p \in Producers : InOutput(<<p, 1>>) = 1 /\ InOutput(<<p, 2>>) = 1
    /\ \E i, j, k \in DOMAIN output :
          /\ i < j /\ j < k
          /\ LineId(output[i])[1] = LineId(output[k])[1]
          /\ LineId(output[j])[1] # LineId(output[i])[1]

EventIds ==
    {<<"fm", n>> : n \in 1..MaxFsEvents}
    \cup {<<"sys", n>> : n \in 1..(MaxSamples + 1)}

\* the producer is in blocking_send with the event of this id
Sending(id) ==
    /\ pc[id[1]] \in {"send", "blocked"}
    /\ IsSome(held[id[1]])
    /\ held[id[1]][1].id = id

\* C5: under fair scheduling and a sink that accepts every write, each
\* event a producer sends, one blocked on the full queue included, is
\* eventually forwarded to the sink.
C5_SentEventuallyForwarded ==
    \A id \in EventIds :
        Sending(id) ~> (InOutput(id) = 1 \/ dPc = "panicked")

\* a producer is blocked in send on the full queue
C5_Witness ==
    /\ RxAlive
    /\ \E p \in Producers :
          /\ pc[p] = "blocked"
          /\ Sending(<<p, seq[p]>>)
          /\ Len(queue) = Capacity
          /\ InOutput(<<p, seq[p]>>) = 0

\* C6 as stated: while one producer is blocked in send on the full queue,
\* the other producer completes its own send without waiting for the
\* dispatcher to free a slot.
C6_OtherProducerNeverWaits ==
    \A p, q \in Producers :
        (p # q /\ RxAlive /\ pc[p] = "blocked" /\ pc[q] = "send")
            => Len(queue) < Capacity

\* C6, amended: a full queue never stalls the dispatcher and stalls every
\* producer that sends into it: while one producer is blocked in send, the
\* dispatcher can receive, the other producer can go on up to its own
\* next send, and that send waits for a free slot as well.
C6_FullQueueStallsSendersOnly ==
    \A p, q \in Producers :
        (p # q /\ RxAlive /\ pc[p] = "blocked") =>
            /\ queue # <<>>
            /\ dPc = "recv" => ENABLED DispatcherRecv
            /\ dPc = "print" => ENABLED DispatcherPrint
            /\ (q = "sys" /\ pc[q] = "sample" /\ seq[q] < MaxSamples)
                  => ENABLED SysSample
            /\ (q = "fm" /\ pc[q] = "recv" /\ notifyQ # <<>>)
                  => ENABLED FmProcess
            /\ pc[q] = "send" =>
                  /\ Len(queue) = Capacity
                  /\ ENABLED Send(q)
                  /\ \A i \in DOMAIN waiters : waiters[i] # q

\* one producer is blocked, the other is about to send into the same full
\* queue, and the dispatcher is ready to receive
C6_Witness ==
    /\ RxAlive
    /\ dPc = "recv"
    /\ pc["fm"] = "blocked"
    /\ pc["sys"] = "send"
    /\ Len(queue) = Capacity

\* both producer loops have ended
ProducersEnded == \A p \in Producers : pc[p] \in {"done", "failed"}

\* C7: once both producer loops have ended the queue counts as closed: the
\* dispatcher forwards what is queued, its receive reports closure, the
\* loop ends and main returns.
C7_DispatcherEndsAfterProducers ==
    ProducersEnded ~> (dPc = "done")

\* C8: when the watcher cannot create or attach to its root at startup the
\* whole agent stops: from then on no event is forwarded to the sink.
C8_StartupFailureStopsAgent ==
    [][pc["fm"] = "failed" => output' = output]_vars

\* C9 as stated: once the receiver is gone, both the watcher and the
\* sampler eventually terminate.
C9_BothProducersTerminate ==
    (~RxAlive) ~> ProducersEnded

\* a notification the watcher turns into an event
Translatable(n) ==
    n.ok /\ IsSome(process_fs_event(n, hostname, scannerOk, <<"fm", 0>>, 0))

\* C9, amended: with the receiver gone a producer's next send fails and
\* ends that producer's loop, the other producer is left as it is, and a
\* producer that has ended sends nothing more; the sampler eventually
\* terminates, and the watcher terminates once it has an event to send
\* (it keeps waiting for notifications otherwise).
C9_SendFailureEndsProducer ==
    /\ [][\A p \in Producers :
            (~RxAlive /\ pc[p] \in {"send", "blocked"} /\ pc'[p] # pc[p])
               => /\ pc'[p] = "done"
                  /\ queue' = queue
                  /\ \A q \in Producers \ {p} :
                        pc'[q] = pc[q] /\ held'[q] = held[q]]_vars
    /\ [][\A p \in Producers :
            pc[p] = "done"
               => pc'[p] = "done" /\ seq'[p] = seq[p] /\ queue' = queue]_vars
    /\ (~RxAlive) ~> (pc["sys"] = "done")
    /\ (~RxAlive /\ pc["fm"] \in {"send", "blocked"}) ~> (pc["fm"] = "done")
    /\ (~RxAlive /\ pc["fm"] = "recv"
          /\ \E i \in DOMAIN notifyQ : Translatable(notifyQ[i]))
         ~> (pc["fm"] = "done")

\* the receiver is gone, the sampler's send has failed and ended it, and
\* the watcher waits for a notification that has not come
C9_Witness ==
    /\ ~RxAlive
    /\ pc["sys"] = "done"
    /\ seq["sys"] > InOutput(<<"sys", 1>>) + InOutput(<<"sys", 2>>)
    /\ pc["fm"] = "recv"
    /\ notifyQ = <<>>

\* the event the watcher built for the notification it handled last
LastFmEvents == {event \in LiveEvents : event.id = <<"fm", seq["fm"]>>}

\* C10: when the scan of a created or modified regular file returns a
\* non-empty match list, the event the watcher emits has severity Critical,
\* rule_triggered true, the first identifier of the list as rule_name, and
\* the tags "file_monitor" followed by one "yara:<identifier>" per match in
\* the scanner's order.
C10_ScanMatchEscalates ==
    \A n \in {fmCur[i] : i \in DOMAIN fmCur} :
        (/\ n.ok
         /\ scannerOk
         /\ n.kind[1] \in {"Create", "Modify"}
         /\ n.paths # <<>>
         /\ n.is_file
         /\ n.scan.ok
         /\ n.scan.matching # <<>>)
        => \A event \in LastFmEvents :
              /\ event.severity = "Critical"
              /\ event.rule_triggered
              /\ event.rule_name = Some(n.scan.matching[1])
              /\ event.tags =
                    <<(<<"file_monitor">>)>>
                    \o [i \in 1..Len(n.scan.matching) |->
                          <<"yara:", n.scan.matching[i]>>]

\* the watcher emitted the event of a file whose baseline severity is High
\* and on which two signatures matched
C10_Witness ==
    /\ scannerOk
    /\ IsSome(fmCur)
    /\ fmCur[1].ok
    /\ fmCur[1].is_file
    /\ fmCur[1].scan = ScanOk(<<"python_reverse_shell", "eicar_test_file">>)
    /\ \E event \in LastFmEvents :
          /\ event.event_type.path = P_etc_passwd
          /\ event.event_type.operation = "Create"
          /\ event.rule_name = Some("python_reverse_shell")
          /\ \E i \in DOMAIN queue : queue[i] = event

----------------------------------------------------------------------------
(* Claims about the watcher without a scanner *)

\* the events a producer has built and the dispatcher has not yet received
ProducerEvents ==
    {held[p][1] : p \in {q \in Producers : IsSome(held[q])}}
    \cup {queue[i] : i \in DOMAIN queue}

\* a tag of the form "yara:<identifier>"
IsYaraTag(tag) == Len(tag) = 2 /\ tag[1] = "yara:"

\* the notify result is a change the watcher translates
IsTranslatable(n) ==
    /\ n.ok
    /\ n.kind[1] \in {"Create", "Modify", "Remove"}
    /\ n.paths # <<>>

\* C11: when the scanner failed to initialise the agent runs with scanning
\* disabled: every translatable change still yields an event, and no
\* watcher event is escalated: its severity is the baseline severity of
\* its path (never Critical), it has no "yara:" tag and no rule_name.
C11_NoScannerNoEscalation ==
    ~scannerOk =>
       /\ \A n \in {fmCur[i] : i \in DOMAIN fmCur} :
             IsTranslatable(n) =>
                \E event \in ProducerEvents :
                   /\ event.id = <<"fm", seq["fm"]>>
                   /\ event.event_type.path = n.paths[1]
       /\ \A event \in ProducerEvents :
             event.id[1] = "fm" =>
                /\ event.severity = BaselineSeverity(event.event_type.path)
                /\ event.severity # "Critical"
                /\ \A i \in DOMAIN event.tags : ~IsYaraTag(event.tags[i])
                /\ event.tags = <<(<<"file_monitor">>)>>
                /\ ~event.rule_triggered
                /\ event.rule_name = None

\* without a scanner the watcher emitted the event of a created regular
\* file on which the engine would have reported two matches
C11_Witness ==
    /\ ~scannerOk
    /\ IsSome(fmCur)
    /\ fmCur[1].ok
    /\ fmCur[1].kind[1] = "Create"
    /\ fmCur[1].is_file
    /\ fmCur[1].scan = ScanOk(<<"eicar_test_file", "suspicious_shell_script">>)
    /\ \E i \in DOMAIN queue :
          /\ queue[i].id = <<"fm", 1>>
          /\ queue[i].severity = "Medium"

----------------------------------------------------------------------------
(* Claims about the built-in rules *)

\* the engine holds the built-in rules only and has evaluated an event
BuiltinsEvaluated == IsSome(evalArg) /\ rule_engine = RuleEngine_new

\* the paths of EvalPaths that name /etc/passwd, /etc/shadow or
\* /etc/sudoers
CriticalPaths == EvalPaths \ {P_w_shadow}

\* the event is a Modify or Delete of a critical file
IsCriticalChange(event) ==
    /\ event.event_type.type = "FileIntegrity"
    /\ event.event_type.operation \in {"Modify", "Delete"}
    /\ event.event_type.path \in CriticalPaths

\* C12: with the built-in rules evaluate returns
\* "critical_file_modification" for every FileIntegrity event whose
\* operation is Modify or Delete and whose path contains /etc/passwd,
\* /etc/shadow or /etc/sudoers, at every severity, and for no other
\* operation, path or kind of event.
C12_CriticalFileModification ==
    BuiltinsEvaluated =>
       ((evalRet = Some("critical_file_modification"))
           <=> IsCriticalChange(evalArg[1]))

\* a Critical-severity Delete of /w/etc/shadow got the file rule's name, not
\* the severity rule's
C12_Witness ==
    /\ BuiltinsEvaluated
    /\ evalArg[1].severity = "Critical"
    /\ evalArg[1].event_type.type = "FileIntegrity"
    /\ evalArg[1].event_type.path = P_w_etc_shadow
    /\ evalArg[1].event_type.operation = "Delete"
    /\ evalRet = Some("critical_file_modification")

\* a is strictly below b in the derived order of Severity
SeverityLt(a, b) == SeverityGe(b, a) /\ ~SeverityGe(a, b)

\* C13: Severity is totally ordered Info < Low < Medium < High < Critical,
\* and with the built-in rules evaluate returns "high_severity_alert" for
\* every event of severity High or Critical that is not a critical file
\* change, whatever its kind, and never for Info, Low or Medium.
C13_HighSeverityAlert ==
    /\ SeverityLt("Info", "Low") /\ SeverityLt("Low", "Medium")
    /\ SeverityLt("Medium", "High") /\ SeverityLt("High", "Critical")
    /\ \A a, b \in SeveritySet :
          (a = b) \/ SeverityLt(a, b) \/ SeverityLt(b, a)
    /\ \A a, b, c \in SeveritySet :
          (SeverityLt(a, b) /\ SeverityLt(b, c)) => SeverityLt(a, c)
    /\ BuiltinsEvaluated =>
          ((evalRet = Some("high_severity_alert"))
              <=> (/\ evalArg[1].severity \in {"High", "Critical"}
                   /\ ~IsCriticalChange(evalArg[1])))

\* a system log of severity High got the severity rule's name
C13_Witness ==
    /\ BuiltinsEvaluated
    /\ evalArg[1].severity = "High"
    /\ evalArg[1].event_type.type = "SystemLog"
    /\ evalRet = Some("high_severity_alert")

\* the remote addresses of EvalEventTypes that name port 4444 or 31337
FlaggedAddrs == {A_port4444, A_port31337}

\* a socket event whose remote address is present and flagged
IsFlaggedSocket(event) ==
    /\ event.event_type.type = "NetworkSocket"
    /\ event.event_type.remote_addr # None
    /\ event.event_type.remote_addr[1] \in FlaggedAddrs

\* C14 as stated: with the built-in rules evaluate returns
\* "suspicious_network" for every NetworkSocket event whose remote_addr is
\* present and contains ":4444" or ":31337", and never for one whose
\* remote_addr is absent.
C14_SuspiciousNetworkAlways ==
    BuiltinsEvaluated =>
       /\ IsFlaggedSocket(evalArg[1])
             => evalRet = Some("suspicious_network")
       /\ (/\ evalArg[1].event_type.type = "NetworkSocket"
           /\ evalArg[1].event_type.remote_addr = None)
             => evalRet # Some("suspicious_network")

\* C14, amended: evaluate returns "suspicious_network" exactly for the
\* NetworkSocket events of severity Info, Low or Medium whose remote_addr
\* is present and contains ":4444" or ":31337"; at High or Critical the
\* same events get "high_severity_alert"; an absent remote_addr never
\* gives "suspicious_network".
C14_SuspiciousNetworkBelowHigh ==
    BuiltinsEvaluated =>
       /\ (evalRet = Some("suspicious_network"))
             <=> (/\ IsFlaggedSocket(evalArg[1])
                  /\ evalArg[1].severity \in {"Info", "Low", "Medium"})
       /\ (/\ IsFlaggedSocket(evalArg[1])
           /\ evalArg[1].severity \in {"High", "Critical"})
             => evalRet = Some("high_severity_alert")

\* a Medium socket event to port 31337 got the network rule's name
C14_Witness ==
    /\ BuiltinsEvaluated
    /\ evalArg[1].severity = "Medium"
    /\ evalArg[1].event_type.type = "NetworkSocket"
    /\ evalArg[1].event_type.remote_addr = Some(A_port31337)
    /\ evalRet = Some("suspicious_network")

----------------------------------------------------------------------------
(* Claims about the sampler's events *)

\* CPU percentages around the threshold of rule 4
CpuRange == {0, 50, 89, 90, 91, 95, 100}

\* the event monitor_system builds from one reading
SampleEvent(cpu_usage) ==
    with_tag(LogEvent_new(<<"sys", 1>>, 1, "Info",
                          ProcessMonitor(4242, "system", cpu_usage, 2048),
                          hostname),
             <<"system_monitor">>)

\* an output line of a sampler event is stamped exactly when its reading
\* is above 90
SampleLineRight(line) ==
    /\ line.severity = JStr("INFO")
    /\ line.type = JStr("process_monitor")
    /\ line.tags = <<JStr(<<"system_monitor">>)>>
    /\ IF line.cpu_usage[2] > 90
       THEN line.rule_triggered /\ line.rule_name = JStr("high_cpu_usage")
       ELSE ~line.rule_triggered /\ line.rule_name = JNull

\* C15: every event of the sampler (severity Info, kind ProcessMonitor, tag
\* system_monitor) is forwarded with rule_triggered true and rule_name
\* "high_cpu_usage" exactly when its cpu_usage is strictly greater than 90;
\* at exactly 90 or below it is forwarded with rule_triggered false and no
\* rule_name.
C15_HighCpuStrictlyAbove90 ==
    /\ \A i \in DOMAIN output :
          LineId(output[i])[1] = "sys" => SampleLineRight(output[i])
    /\ \A cpu_usage \in CpuRange :
          SampleLineRight(to_json(Stamp(SampleEvent(cpu_usage))))

\* the sink holds a sampler line at 95 that is stamped and one at exactly 90
\* that is not
C15_Witness ==
    \E i, j \in DOMAIN output :
       /\ LineId(output[i])[1] = "sys" /\ LineId(output[j])[1] = "sys"
       /\ output[i].cpu_usage = JNum(95) /\ output[i].rule_triggered
       /\ output[j].cpu_usage = JNum(90) /\ ~output[j].rule_triggered

----------------------------------------------------------------------------
(* Claims about the wire format *)

\* the event constructed has only finite numbers
FiniteEvent(event) ==
    event.event_type.type = "ProcessMonitor"
        => event.event_type.cpu_usage # NaN

\* C16: for every event that can be constructed, from_json(to_json(event))
\* succeeds and yields an event equal to the original in every field.
C16_RoundTrip ==
    IsSome(rtParsed) => rtParsed[1] = ParseOk(rtEvent[1])

\* the round trip of every constructed event whose numbers are finite
RoundTripFinite ==
    (IsSome(rtParsed) /\ FiniteEvent(rtEvent[1]))
        => rtParsed[1] = ParseOk(rtEvent[1])

\* a stamped, tagged event with an absent optional field came back whole
RoundTripFiniteWitness ==
    /\ IsSome(rtParsed)
    /\ rtParsed[1] = ParseOk(rtEvent[1])
    /\ rtEvent[1].rule_triggered
    /\ Len(rtEvent[1].tags) = 2
    /\ rtEvent[1].event_type.type = "NetworkSocket"
    /\ rtEvent[1].event_type.remote_addr = None
    /\ rtJson[1].remote_addr = JNull

----------------------------------------------------------------------------
(* Claims about what the dispatcher does to an event *)

\* the names the RuleEngine gives an event of severity Critical
CriticalRuleNames == {"critical_file_modification", "high_severity_alert"}

HasYaraTag(event) == \E i \in DOMAIN event.tags : IsYaraTag(event.tags[i])
LineHasYaraTag(line) == \E i \in DOMAIN line.tags : IsYaraTag(line.tags[i][2])

\* the scanner identifiers named by an event's yara tags
YaraIds(event) ==
    {event.tags[i][2] : i \in {j \in DOMAIN event.tags :
                                  IsYaraTag(event.tags[j])}}

\* C17: for every file event on which the scanner matched, the event the
\* dispatcher forwards carries a RuleEngine rule name
\* ("critical_file_modification" or "high_severity_alert") as rule_name,
\* not the scanner identifier the watcher set; evaluate never returns none
\* for an event of severity Critical.
C17_DispatcherOverridesScannerName ==
    /\ \A event \in ProducerEvents :
          HasYaraTag(event) =>
             /\ event.severity = "Critical"
             /\ IsSome(event.rule_name)
             /\ event.rule_name[1] \in YaraIds(event)
             /\ IsSome(evaluate(rule_engine, event))
    /\ \A i \in DOMAIN dHeld :
          HasYaraTag(dHeld[i]) =>
             /\ IsSome(dHeld[i].rule_name)
             /\ dHeld[i].rule_name[1] \in CriticalRuleNames
    /\ \A i \in DOMAIN output :
          LineHasYaraTag(output[i]) =>
             /\ output[i].severity = JStr("CRITICAL")
             /\ output[i].rule_triggered
             /\ \E name \in CriticalRuleNames :
                   output[i].rule_name = JStr(name)

\* a line of a scanner match was written under the name high_severity_alert
C17_Witness ==
    \E i \in DOMAIN output :
       /\ output[i].tags =
             <<JStr(<<"file_monitor">>), JStr(YaraTag("eicar_test_file"))>>
       /\ output[i].rule_name = JStr("high_severity_alert")


\* the fields the dispatcher leaves alone
SameButRule(a, b) ==
    /\ a.id = b.id /\ a.timestamp = b.timestamp /\ a.severity = b.severity
    /\ a.event_type = b.event_type /\ a.hostname = b.hostname
    /\ a.tags = b.tags

\* the events in the producers' hands
HeldEvents == {held[p][1] : p \in {q \in Producers : IsSome(held[q])}}

\* the dispatcher takes an event off the queue in this step
Receives == dPc = "recv" /\ dPc' = "print"

\* the dispatcher writes a line in this step
Writes == Len(output') = Len(output) + 1

\* C18: the dispatcher changes nothing but rule_triggered and rule_name:
\* the id, timestamp, severity, kind, hostname and tags of the forwarded
\* event equal those it had when its producer sent it, and when evaluate
\* returns none the event is forwarded entirely unchanged.
C18_DispatcherFrame ==
    [][/\ \A i \in DOMAIN queue' :
             \/ \E j \in DOMAIN queue : queue'[i] = queue[j]
             \/ queue'[i] \in HeldEvents
       /\ Receives =>
             /\ SameButRule(dHeld'[1], Head(queue))
             /\ evaluate(rule_engine, Head(queue)) = None
                   => dHeld'[1] = Head(queue)
       /\ Writes =>
             LET line == output'[Len(output')]
                 event == dHeld[1]
             IN  /\ line.id = JStr(event.id)
                 /\ line.timestamp = JStr(event.timestamp)
                 /\ line.severity = JStr(SeverityWire(event.severity))
                 /\ line.type = EventTypeWire(event.event_type).type
                 /\ line.hostname = JStr(event.hostname)
                 /\ Len(line.tags) = Len(event.tags)
                 /\ \A i \in DOMAIN event.tags :
                       line.tags[i] = JStr(event.tags[i])
                 /\ line.rule_triggered = event.rule_triggered
                 /\ line.rule_name = JOpt(event.rule_name)]_vars

\* the dispatcher holds a sampler event it has stamped, severity still Info,
\* and has written a line of an event no rule matched
C18_Witness ==
    /\ IsSome(dHeld)
    /\ dHeld[1].rule_name = Some("high_cpu_usage")
    /\ dHeld[1].severity = "Info"
    /\ \E i \in DOMAIN output :
          ~output[i].rule_triggered /\ output[i].rule_name = JNull

----------------------------------------------------------------------------
(* Claims about deadlock *)

\* the dispatcher is able to take a step
DispatcherCanStep ==
    ENABLED (DispatcherRecv \/ DispatcherPrint \/ DispatcherPrintFail)

\* no state has the dispatcher waiting on an empty queue while a producer
\* is blocked in send, and with a non-empty queue the dispatcher can step
NoDeadlock ==
    /\ ~(/\ dPc = "recv" /\ queue = <<>>
         /\ \E p \in Producers : pc[p] = "blocked")
    /\ queue # <<>> => DispatcherCanStep

\* C20 as stated: the pipeline never deadlocks, and a producer blocked on a
\* full queue is unblocked after the dispatcher's next receive.
C20_EveryBlockedProducerUnblocked ==
    /\ []NoDeadlock
    /\ [][Receives =>
             \A p \in Producers : pc[p] = "blocked" => pc'[p] # "blocked"]_vars

\* C20, amended: the pipeline never deadlocks; the producers blocked on the
\* full queue wait in line, and each receive of the dispatcher unblocks the
\* one that has waited longest, whose event takes the freed slot; one
\* blocked behind it moves up and is unblocked by the receive after.
\* (Once the dispatcher is gone the blocked senders are woken with an error.)
C20_OldestBlockedProducerUnblocked ==
    /\ []NoDeadlock
    /\ [](RxAlive =>
            /\ \A p \in Producers :
                  pc[p] = "blocked" <=> \E i \in DOMAIN waiters : waiters[i] = p
            /\ \A i, j \in DOMAIN waiters : waiters[i] = waiters[j] => i = j
            /\ waiters # <<>> => Len(queue) = Capacity)
    /\ [][(Receives /\ waiters # <<>>) =>
             /\ pc'[Head(waiters)] = LoopPc(Head(waiters))
             /\ queue'[Len(queue')] = held[Head(waiters)][1]
             /\ waiters' = Tail(waiters)]_vars

\* both producers were blocked and a receive has let the first of them go:
\* its event is the newest in the full queue, the other still waits
C20_Witness ==
    /\ dPc = "print"
    /\ Len(waiters) = 1
    /\ Len(queue) = Capacity
    /\ queue[Len(queue)].id[1] # waiters[1]
    /\ pc[queue[Len(queue)].id[1]] = LoopPc(queue[Len(queue)].id[1])

----------------------------------------------------------------------------
(* Claims about the watcher's translation *)

\* the paths of Paths that contain "/etc", "passwd" or "shadow"
HighPaths ==
    {P_w_shadow, P_w_passwd_cfg, P_etc_passwd, P_etc_sudoers,
     P_etc_hosts_conf, P_w_etc_shadow}

\* the other paths of Paths that end in ".conf" or ".cfg"
MediumPaths == {P_w_a_conf, P_w_b_cfg}

\* the severity the path heuristic is to give
ExpectedBaseline(path) ==
    IF path \in HighPaths THEN "High"
    ELSE IF path \in MediumPaths THEN "Medium"
    ELSE "Low"

\* C21: the baseline severity the watcher assigns to a path is High when
\* the path contains "/etc", "passwd" or "shadow", whatever its suffix;
\* otherwise Medium when it ends in ".conf" or ".cfg"; otherwise Low. A
\* path meeting both the High and the Medium condition gets High.
C21_BaselineSeverityPrecedence ==
    \A event \in ProducerEvents :
       (event.id[1] = "fm" /\ ~HasYaraTag(event)) =>
          event.severity = ExpectedBaseline(event.event_type.path)

\* the watcher emitted events for a path with "passwd" ending in ".cfg" at
\* High
C21_Witness ==
    \E i \in DOMAIN queue :
       /\ queue[i].event_type.path = P_w_passwd_cfg
       /\ queue[i].severity = "High"
       /\ queue[i].tags = <<(<<"file_monitor">>)>>

\* what happened on the filesystem, as the notifier classifies it: a rename
\* is reported as Modify(Name), an attribute or permission change as
\* Modify(Metadata)
NativeChange(kind) ==
    CASE kind = <<"Modify", "Name">> -> "rename"
      [] kind = <<"Modify", "Metadata">> -> "attribute"
      [] kind = <<"Create", "File">> -> "create"
      [] kind = <<"Modify", "Data">> -> "modify"
      [] kind = <<"Remove", "File">> -> "remove"
      [] OTHER -> "other"

\* the operation the translation is to give a native change
ExpectedOperation(change) ==
    CASE change = "create" -> "Create"
      [] change = "modify" -> "Modify"
      [] change = "remove" -> "Delete"

\* C22: the watcher translates a native change into an event only when its
\* kind is create, modify or remove (operation Create, Modify, Delete
\* respectively); a change of any other kind, such as a rename or an
\* attribute/permission change, yields no event, and no event the watcher
\* emits has operation Rename or Chmod.
C22_OnlyCreateModifyRemove ==
    /\ \A n \in {fmCur[i] : i \in DOMAIN fmCur} :
          n.ok =>
             IF NativeChange(n.kind) \in {"create", "modify", "remove"}
             THEN \A event \in LastFmEvents :
                     event.event_type.operation =
                        ExpectedOperation(NativeChange(n.kind))
             ELSE seq["fm"] = 0
    /\ \A event \in ProducerEvents :
          event.id[1] = "fm" =>
             event.event_type.operation \notin {"Rename", "Chmod"}

\* C23: the scanner is invoked only when it is available, the operation is
\* Create or Modify and the path is a regular file; an event of the watcher
\* has severity Critical if and only if that scan returned a match, so
\* every Delete event and every event on a path that is not a regular file
\* has its baseline severity, rule_triggered false and no "yara:" tag.
C23_CriticalIffScanMatched ==
    \A n \in {fmCur[i] : i \in DOMAIN fmCur} :
       IsTranslatable(n) =>
          \A event \in LastFmEvents :
             LET scanned == /\ scannerOk
                            /\ event.event_type.operation
                                  \in {"Create", "Modify"}
                            /\ n.is_file
                 matched == scanned /\ n.scan.ok /\ n.scan.matching # <<>>
             IN  /\ (event.severity = "Critical") <=> matched
                 /\ HasYaraTag(event) <=> matched
                 /\ ~matched =>
                       /\ event.severity =
                             ExpectedBaseline(event.event_type.path)
                       /\ ~event.rule_triggered
                       /\ event.rule_name = None
                       /\ event.tags = <<(<<"file_monitor">>)>>

\* with the scanner available, the removal of a regular file on which the
\* engine would report a match left the watcher at its baseline severity
C23_Witness ==
    /\ scannerOk
    /\ IsSome(fmCur)
    /\ fmCur[1].ok
    /\ fmCur[1].kind[1] = "Remove"
    /\ fmCur[1].is_file
    /\ fmCur[1].scan = ScanOk(<<"eicar_test_file">>)
    /\ \E i \in DOMAIN queue :
          /\ queue[i].event_type.operation = "Delete"
          /\ queue[i].severity = "Low"
          /\ ~queue[i].rule_triggered


\* the watcher's event of this number, while a producer or the queue has it
FmEvent(k) == {event \in ProducerEvents : event.id = <<"fm", k>>}

\* the event is as the translation leaves it without escalation
NotEscalated(event) ==
    /\ event.severity = ExpectedBaseline(event.event_type.path)
    /\ event.tags = <<(<<"file_monitor">>)>>
    /\ ~event.rule_triggered
    /\ event.rule_name = None

\* C24: a scan that fails is treated as a scan with zero matches: the
\* watcher still emits the event of that change with its baseline severity
\* and no escalation, the watch loop does not stop, and later changes are
\* still processed and scanned.
C24_ScanFailureIsNoMatch ==
    scannerOk =>
       /\ pc["fm"] \in {"recv", "send", "blocked"}
       /\ (pc["fm"] = "recv" /\ notifyQ # <<>>) => ENABLED FmProcess
       /\ Len(notifyQ) <= 1 =>
             /\ seq["fm"] >= 1
             /\ FmEvent(1) # {}
             /\ \A event \in FmEvent(1) : NotEscalated(event)
       /\ (notifyQ = <<>> /\ IsTranslatable(fmCur[1])) =>
             /\ seq["fm"] = 2
             /\ FmEvent(2) # {}
             /\ \A event \in FmEvent(2) :
                   (event.severity = "Critical") <=>
                      (/\ event.event_type.operation \in {"Create", "Modify"}
                       /\ fmCur[1].is_file
                       /\ fmCur[1].scan.ok
                       /\ fmCur[1].scan.matching # <<>>)

\* after the event of the failed scan the watcher emitted the escalated
\* event of a later change
C24_Witness ==
    /\ scannerOk
    /\ Len(queue) = 2
    /\ queue[1].id = <<"fm", 1>>
    /\ queue[1].event_type.path = P_etc_passwd
    /\ queue[1].severity = "High"
    /\ queue[2].id = <<"fm", 2>>
    /\ queue[2].severity = "Critical"
    /\ queue[2].tags = <<(<<"file_monitor">>), YaraTag("eicar_test_file")>>

----------------------------------------------------------------------------
(* Claims about tags *)

\* s is a prefix of t
IsPrefix(s, t) == Len(s) <= Len(t) /\ SubSeq(t, 1, Len(s)) = s

\* the tag a producer gives its events first
ProducerTag(p) ==
    IF p = "fm" THEN <<"file_monitor">> ELSE <<"system_monitor">>

\* the tags of a line, back from their JSON strings
LineTags(line) == [i \in DOMAIN line.tags |-> line.tags[i][2]]

\* C25: tags are append-only through the pipeline: every event of the
\* watcher has "file_monitor" as its first tag and every event of the
\* sampler "system_monitor", at each later stage the tag sequence has the
\* earlier one as a prefix, and no stage removes or reorders a tag.
C25_TagsAppendOnly ==
    /\ [](/\ \A event \in LiveEvents :
                event.tags # <<>> /\ event.tags[1] = ProducerTag(event.id[1])
          /\ \A i \in DOMAIN output :
                /\ output[i].tags # <<>>
                /\ LineTags(output[i])[1] = ProducerTag(LineId(output[i])[1]))
    /\ [][/\ \A i \in DOMAIN queue' :
                \/ \E j \in DOMAIN queue : queue'[i] = queue[j]
                \/ \E event \in HeldEvents :
                      /\ queue'[i].id = event.id
                      /\ IsPrefix(event.tags, queue'[i].tags)
          /\ Receives => IsPrefix(Head(queue).tags, dHeld'[1].tags)
          /\ Writes =>
                IsPrefix(dHeld[1].tags, LineTags(output'[Len(output')]))
          /\ \A i \in DOMAIN output :
                i \in DOMAIN output' /\ output'[i].tags = output[i].tags]_vars

\* a line of a file with two scanner matches: the producer's tag first,
\* then the two yara tags in the scanner's order
C25_Witness ==
    \E i \in DOMAIN output :
       LineTags(output[i]) =
          <<(<<"file_monitor">>), YaraTag("eicar_test_file"),
            YaraTag("suspicious_shell_script")>>

----------------------------------------------------------------------------
(* Claims about the notification buffer *)

\* notifications the watcher has taken out of notify_rx
Handled == fsCount - Len(notifyQ)

\* the watcher takes a notification out of notify_rx in this step
Handles == notifyQ # <<>> /\ notifyQ' = Tail(notifyQ) /\ fsCount' = fsCount

\* a step changes the buffer only by a delivery at its tail or by the
\* watcher taking its head, and the watcher turns a translatable head into
\* its next event
BufferedInOrder ==
    /\ fsCount' # fsCount =>
          /\ fsCount' = fsCount + 1
          /\ Len(notifyQ') = Len(notifyQ) + 1
          /\ SubSeq(notifyQ', 1, Len(notifyQ)) = notifyQ
    /\ (fsCount' = fsCount /\ notifyQ' # notifyQ) =>
          /\ Handles
          /\ pc["fm"] = "recv"
          /\ fmCur' = Some(Head(notifyQ))
          /\ IF IsTranslatable(Head(notifyQ))
             THEN /\ pc'["fm"] = "send"
                  /\ held'["fm"][1].id = <<"fm", seq["fm"] + 1>>
                  /\ held'["fm"][1].event_type.path = Head(notifyQ).paths[1]
             ELSE pc'["fm"] = "recv" /\ held' = held /\ seq' = seq

\* the k-th notification delivered is translatable and still in the buffer
WaitingTranslatable(k) ==
    \E j \in DOMAIN notifyQ :
       Handled + j = k /\ IsTranslatable(notifyQ[j])

----------------------------------------------------------------------------
(* Claims about the bridge *)

\* the bridge takes a line from its stdin in this step
BridgeReads == bLines # <<>> /\ bLines' = Tail(bLines)

\* the event a well-formed line carries
LineEvent(line) ==
    IF line.json = Some(to_json(PipeEvent2)) THEN PipeEvent2 ELSE PipeEvent1

\* what the bridge is to do with the line it reads: go on reading; hand the
\* event of a well-formed line to storage once, logging a storage failure;
\* skip any other line, logging it when it begins like an object
BridgeHandles(line) ==
    /\ bPc' = "read"
    /\ IF line \in EventLines
       THEN /\ Len(bInserts') = Len(bInserts) + 1
            /\ SubSeq(bInserts', 1, Len(bInserts)) = bInserts
            /\ bInserts'[Len(bInserts')].event = LineEvent(line)
            /\ IF bInserts'[Len(bInserts')].ok
               THEN bLog' = bLog
               ELSE /\ Len(bLog') = Len(bLog) + 1
                    /\ bLog'[Len(bLog')][1] = "Failed to store event"
       ELSE /\ bInserts' = bInserts
            /\ IF line \in {TextLine(TRUE, <<"{", "x">>, None),
                            TextLine(TRUE, <<>>, Some(to_json(PipeEventNaN)))}
               THEN bLog' = Append(bLog, <<"Failed to parse event JSON", line>>)
               ELSE bLog' = bLog

\* C27: the bridge processes its input lines in order and a bad line never
\* stops it: a line that does not start with '{' or does not parse as an
\* event is skipped (a parse failure is logged) without retry, a storage
\* failure for one event is logged, and every later well-formed line is
\* still parsed and handed to storage exactly once.
C27_BadLineNeverStopsBridge ==
    [][/\ BridgeReads => BridgeHandles(Head(bLines))
       /\ bLines' # bLines =>
             \/ BridgeReads
             \/ \E line \in BridgeLines : bLines' = Append(bLines, line)]_vars

\* the same for the lines that are valid UTF-8
BridgeHandlesValidText ==
    [][/\ (BridgeReads /\ Head(bLines).utf8) => BridgeHandles(Head(bLines))
       /\ bLines' # bLines =>
             \/ BridgeReads
             \/ \E line \in BridgeLines : bLines' = Append(bLines, line)]_vars

\* after a log line, a failed parse and a failed insert the bridge stored
\* the event of a later line
BridgeHandlesValidTextWitness ==
    /\ bPc = "read"
    /\ bCount = 3
    /\ bLines = <<>>
    /\ Len(bLog) = 2
    /\ Len(bInserts) = 2
    /\ ~bInserts[1].ok
    /\ bInserts[2].ok

----------------------------------------------------------------------------
(* Claims about the sentinel *)

\* the output task found the pool missing when it went to store an event
LostToMissingPool ==
    \E i \in DOMAIN sLog :
       sLog[i] = <<"Failed to store event", "Database not initialized">>

\* C28: in the sentinel every daemon output line that parses as an event is
\* stored, however the database-initialisation task and the daemon-output
\* task interleave: while the initialisation has not failed, no parsed
\* event fails to be stored because the pool is not yet initialised.
C28_NoEventBeforePoolReady ==
    sInitPc # "failed" => ~LostToMissingPool

====
